---- MODULE Spec2Model ----
(***************************************************************************)
(* Model of app-record-replay: the HTTP controller (package controller)    *)
(* and the data manager (package data).                                    *)
(*                                                                         *)
(* Spec         the controller's handlers, run against any implementation  *)
(*              of interfaces.DataManager (the controller only holds the   *)
(*              interface): a call returns nil, returns an error, or       *)
(*              panics.                                                    *)
(* SpecManager  the dataManager of internal/data/manager.go, driven        *)
(*              directly through its methods and pipeline functions.       *)
(***************************************************************************)
EXTENDS Integers, Sequences, FiniteSets, TLC

VARIABLES
    request,               \* controller: the request being served
    writer,                \* controller: http.ResponseWriter after the handler
    dmCalls,               \* controller: calls the handler made on c.dataManager
    importedRecordedData,  \* controller: importRecordedData's decoded local
    saved,                 \* client: the last successful export, as downloaded
    dataChan,              \* dataManager.dataChan
    published,             \* events handed to dataManager.appSvc for publishing
    log                    \* the calls made on the dataManager, with results

vars == <<request, writer, dmCalls, importedRecordedData, saved,
          dataChan, published, log>>

ctlVars == <<request, writer, dmCalls, importedRecordedData, saved>>
mgrVars == <<dataChan, published, log>>

(***************************************************************************)
(* Bounds of the model.                                                    *)
(***************************************************************************)
MaxEvents == 2
MaxMeta == 1
MaxValue == 2
MaxCalls == 4

(***************************************************************************)
(* Program constants.                                                      *)
(***************************************************************************)
StatusOK == 200
StatusAccepted == 202
StatusBadRequest == 400
StatusInternalServerError == 500
DataChanCap == 1

noCompression == ""
zlibCompression == "ZLIB"
gzipCompression == "GZIP"
contenEncodingGzip == "gzip"
contentEncodingZlib == "deflate"
ContentTypeJSON == "application/json"

failedRequestJSON == "Unable to process request JSON"
failedRecordRequestValidate == "Record request failed validation: Duration and/or EventLimit must be set"
failedRecordDurationValidate == "Record request failed validation: Duration must be > 0 when set"
failedRecordEventLimitValidate == "Record request failed validation: Event Limit must be > 0 when set"
failedRecording == "Recording failed"
failedReplayRateValidate == "Replay request failed validation: Replay Rate must be greater than 0"
failedRepeatCountValidate == "Replay request failed validation: Repeat Count must be equal or greater than 0"
failedReplay == "Replay failed"
failedDataCompression == "failed to compress recorded data of type"
failedToUncompressData == "failed to uncompress data"
failedImportingData == "Import data failed"
noDataFound == "no recorded data found"

(***************************************************************************)
(* Values.                                                                 *)
(***************************************************************************)
SeqsUpTo(S, n) == UNION {[1..k -> S] : k \in 0..n}

Events == {"e1", "e2"}
DeviceNames == {"d1", "d2"}
ProfileNames == {"p1"}

\* dtos.RecordedData: three slices.
RecordedDatas ==
    [Devices : SeqsUpTo(DeviceNames, MaxMeta),
     Profiles : SeqsUpTo(ProfileNames, MaxMeta),
     RecordedEvents : SeqsUpTo(Events, MaxEvents)]

\* The zero value of dtos.RecordedData.
emptyRecordedData == [Devices |-> <<>>, Profiles |-> <<>>, RecordedEvents |-> <<>>]

\* What a call through the interfaces.DataManager field can do.
nil == "nil"
anError == "error"
panics == "panic"
CallOutcomes == {nil, anError, panics}

(***************************************************************************)
(* encoding/json on dtos.RecordedData, as a token stream.                  *)
(***************************************************************************)
Marshal(d) ==
    <<"{", "devices", "[">> \o d.Devices \o
    <<"]", "profiles", "[">> \o d.Profiles \o
    <<"]", "recordedEvents", "[">> \o d.RecordedEvents \o
    <<"]", "}">>

\* json.Encoder.Encode writes the value followed by a newline.
Encode(d) == Marshal(d) \o <<"\n">>

\* Index of the first x in t at or after from; 0 when there is none.
IndexFrom(t, x, from) ==
    LET hits == {i \in from..Len(t) : t[i] = x}
    IN  IF hits = {} THEN 0 ELSE CHOOSE i \in hits : \A j \in hits : i <= j

\* json.Decoder.Decode of one RecordedData value; what follows it is not read.
Decode(t) ==
    LET failed == [err |-> TRUE, value |-> emptyRecordedData] IN
    IF Len(t) < 4 \/ t[1] # "{" \/ t[2] # "devices" \/ t[3] # "[" THEN failed
    ELSE LET a == IndexFrom(t, "]", 4) IN
    IF a = 0 \/ Len(t) < a + 3 \/ t[a + 1] # "profiles" \/ t[a + 2] # "[" THEN failed
    ELSE LET b == IndexFrom(t, "]", a + 3) IN
    IF b = 0 \/ Len(t) < b + 3 \/ t[b + 1] # "recordedEvents" \/ t[b + 2] # "["
    THEN failed
    ELSE LET c == IndexFrom(t, "]", b + 3) IN
    IF c = 0 \/ Len(t) < c + 1 \/ t[c + 1] # "}" THEN failed
    ELSE [err |-> FALSE,
          value |-> [Devices |-> SubSeq(t, 4, a - 1),
                     Profiles |-> SubSeq(t, a + 3, b - 1),
                     RecordedEvents |-> SubSeq(t, b + 3, c - 1)]]

(***************************************************************************)
(* compress/zlib and compress/gzip: a header, the deflated payload, a      *)
(* trailer. NewReader reads and checks the header.                         *)
(***************************************************************************)
zlibHeader == "zlib-header"
zlibTrailer == "adler32"
gzipHeader == "gzip-header"
gzipTrailer == "crc32-isize"

zlibWrite(p) == <<zlibHeader>> \o p \o <<zlibTrailer>>
gzipWrite(p) == <<gzipHeader>> \o p \o <<gzipTrailer>>

\* NewReader fails when the header is not the format's; otherwise the reader
\* yields the payload up to the trailer (or to the end of a truncated stream).
Inflate(b, header, trailer) ==
    IF Len(b) < 1 \/ b[1] # header THEN [err |-> TRUE, bytes |-> <<>>]
    ELSE LET e == IndexFrom(b, trailer, 2)
         IN  [err |-> FALSE, bytes |-> SubSeq(b, 2, IF e = 0 THEN Len(b) ELSE e - 1)]

zlibNewReader(b) == Inflate(b, zlibHeader, zlibTrailer)
gzipNewReader(b) == Inflate(b, gzipHeader, gzipTrailer)

(***************************************************************************)
(* The controller's handlers. Each takes the decoded request and what the  *)
(* call on c.dataManager does, and yields the response written, the calls  *)
(* made on the data manager and (for import) the decoded payload.          *)
(***************************************************************************)
noHeader == [ContentEncoding |-> "", ContentType |-> ""]

\* Nothing written: the state of the writer when the handler never reached a
\* WriteHeader (the data manager call panicked).
notWritten == [status |-> 0, header |-> noHeader, body |-> <<>>]

Written(status, body) == [status |-> status, header |-> noHeader, body |-> body]

Call(method, arg, ret) == [method |-> method, arg |-> arg, ret |-> ret]

Result(w, calls) == [writer |-> w, calls |-> calls, imported |-> emptyRecordedData]

\* A slip in the validation: a negative EventLimit is let through.
recordRequestValidation_noEventLimitCheck(startRequest) ==
    IF startRequest.Duration = 0 /\ startRequest.EventLimit = 0
    THEN failedRecordRequestValidate
    ELSE IF startRequest.Duration < 0 THEN failedRecordDurationValidate
    ELSE ""

\* The three checks on a decoded dtos.RecordRequest: the message of the first
\* that fails, "" when all pass.
recordRequestValidation(startRequest) ==
    IF startRequest.Duration = 0 /\ startRequest.EventLimit = 0
    THEN failedRecordRequestValidate
    ELSE IF startRequest.Duration < 0 THEN failedRecordDurationValidate
    ELSE IF startRequest.EventLimit < 0 THEN failedRecordEventLimitValidate
    ELSE ""

\* startRequest: [err: the JSON decoder failed, Duration, EventLimit]
startRecording(startRequest, outcome) ==
    IF startRequest.err
    THEN Result(Written(StatusBadRequest, <<failedRequestJSON>>), <<>>)
    ELSE IF recordRequestValidation(startRequest) # ""
    THEN Result(Written(StatusBadRequest, <<recordRequestValidation(startRequest)>>), <<>>)
    ELSE LET call == Call("StartRecording",
                          [Duration |-> startRequest.Duration,
                           EventLimit |-> startRequest.EventLimit], outcome)
         IN  CASE outcome = panics -> Result(notWritten, <<call>>)
               [] outcome = anError ->
                    Result(Written(StatusInternalServerError, <<failedRecording>>), <<call>>)
               [] OTHER -> Result(Written(StatusAccepted, <<>>), <<call>>)

\* startRequest: [err: the JSON decoder failed, ReplayRate, RepeatCount]
startReplay(startRequest, outcome) ==
    IF startRequest.err
    THEN Result(Written(StatusBadRequest, <<failedRequestJSON>>), <<>>)
    ELSE IF startRequest.ReplayRate <= 0
    THEN Result(Written(StatusBadRequest, <<failedReplayRateValidate>>), <<>>)
    ELSE IF startRequest.RepeatCount < 0
    THEN Result(Written(StatusBadRequest, <<failedRepeatCountValidate>>), <<>>)
    ELSE LET call == Call("StartReplay",
                          [ReplayRate |-> startRequest.ReplayRate,
                           RepeatCount |-> startRequest.RepeatCount], outcome)
         IN  CASE outcome = panics -> Result(notWritten, <<call>>)
               [] outcome = anError ->
                    Result(Written(StatusInternalServerError, <<failedReplay>>), <<call>>)
               [] OTHER -> Result(Written(StatusAccepted, <<>>), <<call>>)

\* recordedData and outcome: what c.dataManager.ExportRecordedData() returns;
\* compression: the "compression" query parameter; encodeErr: json.Marshal or
\* Encoder.Encode fails.
exportRecordedData(recordedData, outcome, compression, encodeErr) ==
    LET call == Call("ExportRecordedData", emptyRecordedData, outcome)
        compressed(token, bytes) ==
            IF encodeErr
            THEN [status |-> StatusInternalServerError,
                  header |-> [ContentEncoding |-> token, ContentType |-> ContentTypeJSON],
                  body |-> <<failedDataCompression>>]
            ELSE [status |-> StatusOK,
                  header |-> [ContentEncoding |-> token, ContentType |-> ContentTypeJSON],
                  body |-> bytes]
    IN  CASE outcome = panics -> Result(notWritten, <<call>>)
          [] outcome = anError ->
               Result(Written(StatusInternalServerError, <<"failed to export recorded data">>),
                      <<call>>)
          [] OTHER ->
               CASE compression = noCompression ->
                      IF encodeErr
                      THEN Result(Written(StatusInternalServerError,
                                          <<"failed to marshal recorded data">>), <<call>>)
                      ELSE Result([status |-> StatusOK,
                                   header |-> [ContentEncoding |-> "",
                                               ContentType |-> ContentTypeJSON],
                                   body |-> Marshal(recordedData)], <<call>>)
                 [] compression = zlibCompression ->
                      Result(compressed("ZLIB", zlibWrite(Encode(recordedData))), <<call>>)
                 [] compression = gzipCompression ->
                      Result(compressed("GZIP", gzipWrite(Encode(recordedData))), <<call>>)
                 [] OTHER ->
                      Result(Written(StatusInternalServerError,
                                     <<"compression format not available">>), <<call>>)

\* strconv.ParseBool on the values of OverwriteParams.
ParseBool(str) ==
    CASE str \in {"1", "t", "T", "TRUE", "true", "True"} -> [err |-> FALSE, value |-> TRUE]
      [] str \in {"0", "f", "F", "FALSE", "false", "False"} -> [err |-> FALSE, value |-> FALSE]
      [] OTHER -> [err |-> TRUE, value |-> FALSE]

\* A slip in the switch: the deflate token opens a gzip reader.
importReader_deflateAsGzip(compression, body) ==
    CASE compression = noCompression -> [err |-> FALSE, bytes |-> body, known |-> TRUE]
      [] compression \in {contenEncodingGzip, contentEncodingZlib} ->
           [err |-> gzipNewReader(body).err, bytes |-> gzipNewReader(body).bytes, known |-> TRUE]
      [] OTHER -> [err |-> TRUE, bytes |-> <<>>, known |-> FALSE]

\* The reader importRecordedData decodes from, by the Content-Encoding header.
importReader(compression, body) ==
    CASE compression = noCompression -> [err |-> FALSE, bytes |-> body, known |-> TRUE]
      [] compression = contenEncodingGzip ->
           [err |-> gzipNewReader(body).err, bytes |-> gzipNewReader(body).bytes, known |-> TRUE]
      [] compression = contentEncodingZlib ->
           [err |-> zlibNewReader(body).err, bytes |-> zlibNewReader(body).bytes, known |-> TRUE]
      [] OTHER -> [err |-> TRUE, bytes |-> <<>>, known |-> FALSE]

\* A slip in the validation: a payload without profiles is let through.
importValidation_noProfilesCheck(data) ==
    IF Len(data.RecordedEvents) < 1 THEN "no recorded events"
    ELSE IF Len(data.Devices) < 1 THEN "no devices"
    ELSE ""

\* The three payload checks before the data manager is called: the message of
\* the first that fails, "" when all pass.
importValidation(data) ==
    IF Len(data.RecordedEvents) < 1 THEN "no recorded events"
    ELSE IF Len(data.Devices) < 1 THEN "no devices"
    ELSE IF Len(data.Profiles) < 1 THEN "no profiles"
    ELSE ""

importRecordedData(contentType, queryParam, compression, body, outcome) ==
    LET overwrite == IF Len(queryParam) = 0 THEN [err |-> FALSE, value |-> TRUE]
                     ELSE ParseBool(queryParam)
        reader == importReader(compression, body)
        decoded == Decode(reader.bytes)
        data == decoded.value
        call == Call("ImportRecordedData",
                     [data |-> data, overWriteProfilesDevices |-> overwrite.value], outcome)
        After(w, calls) == [writer |-> w, calls |-> calls, imported |-> data]
    IN  IF contentType # ContentTypeJSON
        THEN Result(Written(StatusBadRequest, <<"Invalid content type">>), <<>>)
        ELSE IF overwrite.err
        THEN Result(Written(StatusBadRequest, <<"failed to parse overwrite parameter">>), <<>>)
        ELSE IF ~reader.known
        THEN Result(Written(StatusBadRequest, <<"compression format not supported">>), <<>>)
        ELSE IF reader.err
        THEN Result(Written(StatusBadRequest, <<failedToUncompressData>>), <<>>)
        ELSE IF decoded.err
        THEN Result(Written(StatusBadRequest, <<failedRequestJSON>>), <<>>)
        ELSE IF importValidation(data) # ""
        THEN After(Written(StatusBadRequest, <<noDataFound, importValidation(data)>>), <<>>)
        ELSE CASE outcome = panics -> After(notWritten, <<call>>)
               [] outcome = anError ->
                    After(Written(StatusInternalServerError, <<failedImportingData>>), <<call>>)
               [] OTHER -> After(Written(StatusAccepted, <<>>), <<call>>)

(***************************************************************************)
(* The routes (AddRoutes). The controller's fields are set once in New and *)
(* no handler writes them, so a response depends only on its request and   *)
(* on the data manager: a run serves one request, or an export followed by *)
(* the import of what was downloaded.                                      *)
(***************************************************************************)
Values == -1..MaxValue

RecordBodies ==
    [err : {FALSE}, Duration : Values, EventLimit : Values]
        \cup {[err |-> TRUE, Duration |-> 0, EventLimit |-> 0]}

ReplayBodies ==
    [err : {FALSE}, ReplayRate : Values, RepeatCount : Values]
        \cup {[err |-> TRUE, ReplayRate |-> 0, RepeatCount |-> 0]}

CompressionParams == {noCompression, zlibCompression, gzipCompression, "zlib"}
ContentEncodings == {noCompression, contenEncodingGzip, contentEncodingZlib, "ZLIB"}
ContentTypes == {ContentTypeJSON, "text/plain"}
OverwriteParams == {"", "false", "maybe"}

noExport == [status |-> 0, compression |-> "", data |-> emptyRecordedData, bytes |-> <<>>]

\* The bodies a client posts: the export it downloaded, that export cut short,
\* or bytes that are no recording at all.
ImportBodies ==
    {saved.bytes, SubSeq(saved.bytes, 1, Len(saved.bytes) - 3), <<"garbage">>}

Serve(req, res) ==
    /\ request' = req
    /\ writer' = res.writer
    /\ dmCalls' = res.calls
    /\ importedRecordedData' = res.imported

FirstRequest == request.route = ""

PostRecord ==
    \E body \in RecordBodies, outcome \in CallOutcomes :
        /\ FirstRequest
        /\ Serve([route |-> "POST /record", body |-> body],
                 startRecording(body, outcome))
        /\ UNCHANGED <<saved, mgrVars>>

PostReplay ==
    \E body \in ReplayBodies, outcome \in CallOutcomes :
        /\ FirstRequest
        /\ Serve([route |-> "POST /replay", body |-> body],
                 startReplay(body, outcome))
        /\ UNCHANGED <<saved, mgrVars>>

GetData ==
    \E recordedData \in RecordedDatas, outcome \in CallOutcomes,
       compression \in CompressionParams, encodeErr \in BOOLEAN :
        LET res == exportRecordedData(recordedData, outcome, compression, encodeErr)
        IN  /\ FirstRequest
            /\ Serve([route |-> "GET /data", compression |-> compression], res)
            /\ saved' = IF res.writer.status = StatusOK
                        THEN [status |-> StatusOK, compression |-> compression,
                              data |-> recordedData, bytes |-> res.writer.body]
                        ELSE saved
            /\ UNCHANGED mgrVars

PostData ==
    \E contentType \in ContentTypes, queryParam \in OverwriteParams,
       compression \in ContentEncodings, body \in ImportBodies,
       outcome \in CallOutcomes :
        /\ FirstRequest \/ request.route = "GET /data"
        /\ Serve([route |-> "POST /data", contentType |-> contentType,
                  overwrite |-> queryParam, contentEncoding |-> compression,
                  body |-> body],
                 importRecordedData(contentType, queryParam, compression, body, outcome))
        /\ UNCHANGED <<saved, mgrVars>>

InitController ==
    /\ request = [route |-> ""]
    /\ writer = notWritten
    /\ dmCalls = <<>>
    /\ importedRecordedData = emptyRecordedData
    /\ saved = noExport

InitManager ==
    /\ dataChan = <<>>
    /\ published = <<>>
    /\ log = <<>>

Init == InitController /\ InitManager

Next == PostRecord \/ PostReplay \/ GetData \/ PostData

Spec == Init /\ [][Next]_vars

(***************************************************************************)
(* The data manager (internal/data/manager.go). NewManager makes dataChan  *)
(* with room for one batch and keeps ctx and appSvc. Every method body is  *)
(* panic("implement me"); both pipeline functions are `return false, nil`. *)
(* No method reads or writes a field, so a call changes nothing but what   *)
(* its caller sees: log records each call and its result. A panic unwinds  *)
(* to the caller (net/http recovers it per request); the manager stays     *)
(* usable afterwards.                                                      *)
(***************************************************************************)
Ret(outcome, value) == [outcome |-> outcome, value |-> value]

\* panic("implement me")
implementMe == Ret(panics, emptyRecordedData)

\* return false, nil: the pipeline stops, nothing is passed on.
falseNil == Ret("false", emptyRecordedData)

\* dtos.RecordRequest values that pass the controller's validation.
RecordRequests ==
    [Duration : 0..1, EventLimit : 0..MaxEvents] \ {[Duration |-> 0, EventLimit |-> 0]}

\* dtos.ReplayRequest values that pass the controller's validation.
ReplayRequests == [ReplayRate : {1}, RepeatCount : 0..MaxValue]

\* Recordings a client imports: they pass the controller's payload checks.
Recordings ==
    {[Devices |-> <<"d1">>, Profiles |-> <<"p1">>, RecordedEvents |-> ev] :
        ev \in {<<"e1">>, <<"e1", "e2">>}}

\* Batches the host pipeline delivers.
Batches == {<<"e1">>, <<"e2">>, <<"e1", "e2">>}

\* The caller makes at most MaxCalls calls.
CanCall == Len(log) < MaxCalls

Logged(method, arg, ret) == Append(log, Call(method, arg, ret))

StartRecording ==
    \E req \in RecordRequests :
        /\ CanCall
        /\ log' = Logged("StartRecording", req, implementMe)
        /\ UNCHANGED <<dataChan, published, ctlVars>>

CancelRecording ==
    /\ CanCall
    /\ log' = Logged("CancelRecording", <<>>, implementMe)
    /\ UNCHANGED <<dataChan, published, ctlVars>>

RecordingStatus ==
    /\ CanCall
    /\ log' = Logged("RecordingStatus", <<>>, implementMe)
    /\ UNCHANGED <<dataChan, published, ctlVars>>

StartReplay ==
    \E req \in ReplayRequests :
        /\ CanCall
        /\ log' = Logged("StartReplay", req, implementMe)
        /\ UNCHANGED <<dataChan, published, ctlVars>>

CancelReplay ==
    /\ CanCall
    /\ log' = Logged("CancelReplay", <<>>, implementMe)
    /\ UNCHANGED <<dataChan, published, ctlVars>>

ReplayStatus ==
    /\ CanCall
    /\ log' = Logged("ReplayStatus", <<>>, implementMe)
    /\ UNCHANGED <<dataChan, published, ctlVars>>

ExportRecordedData ==
    /\ CanCall
    /\ log' = Logged("ExportRecordedData", <<>>, implementMe)
    /\ UNCHANGED <<dataChan, published, ctlVars>>

ImportRecordedData ==
    \E data \in Recordings :
        /\ CanCall
        /\ log' = Logged("ImportRecordedData", data, implementMe)
        /\ UNCHANGED <<dataChan, published, ctlVars>>

countEvents ==
    \E data \in Batches :
        /\ CanCall
        /\ log' = Logged("countEvents", data, falseNil)
        /\ UNCHANGED <<dataChan, published, ctlVars>>

processBatchedData ==
    \E data \in Batches :
        /\ CanCall
        /\ log' = Logged("processBatchedData", data, falseNil)
        /\ UNCHANGED <<dataChan, published, ctlVars>>

NextManager ==
    \/ StartRecording
    \/ CancelRecording
    \/ RecordingStatus
    \/ StartReplay
    \/ CancelReplay
    \/ ReplayStatus
    \/ ExportRecordedData
    \/ ImportRecordedData
    \/ countEvents
    \/ processBatchedData

SpecManager == Init /\ [][NextManager]_vars

(***************************************************************************)
(* Properties of the controller, checked under Spec.                       *)
(***************************************************************************)
IsImport == request.route = "POST /data"
IsRecord == request.route = "POST /record"

C5_RecordValidation ==
    (IsRecord /\ ~request.body.err) =>
        LET d == request.body.Duration
            e == request.body.EventLimit
        IN  IF (d = 0 /\ e = 0) \/ d < 0 \/ e < 0
            THEN writer.status = StatusBadRequest /\ Len(dmCalls) = 0
            ELSE /\ Len(dmCalls) = 1
                 /\ dmCalls[1].method = "StartRecording"
                 /\ dmCalls[1].arg = [Duration |-> d, EventLimit |-> e]
                 /\ dmCalls[1].ret = nil => writer.status = StatusAccepted
                 /\ dmCalls[1].ret = anError => writer.status = StatusInternalServerError

\* C5's case: only eventLimit set, StartRecording returned nil, 202 sent.
C5_Witness ==
    /\ IsRecord
    /\ ~request.body.err
    /\ request.body.Duration = 0
    /\ request.body.EventLimit > 0
    /\ Len(dmCalls) = 1
    /\ dmCalls[1].ret = nil
    /\ writer.status = StatusAccepted

\* The Content-Encoding token that names, on import, the algorithm an export's
\* compression token chose.
ImportToken(compression) ==
    CASE compression = zlibCompression -> contentEncodingZlib
      [] compression = gzipCompression -> contenEncodingGzip
      [] OTHER -> noCompression

\* The request posts back, as JSON and under the matching token, exactly the
\* bytes of the export that was downloaded.
PostsBackExport ==
    /\ IsImport
    /\ saved.status = StatusOK
    /\ request.body = saved.bytes
    /\ request.contentType = ContentTypeJSON
    /\ request.overwrite \in {"", "false"}
    /\ request.contentEncoding = ImportToken(saved.compression)

\* C7: for each of none, zlib and gzip, importing the bytes an export produced
\* decodes to the RecordedData that was exported: same devices, same profiles,
\* same events in the same order; and that is what ImportRecordedData is given.
C7_RoundTrip ==
    PostsBackExport =>
        /\ importedRecordedData = saved.data
        /\ writer.status # StatusBadRequest \/ importValidation(saved.data) # ""
        /\ Len(dmCalls) = 1 => dmCalls[1].arg.data = saved.data

\* C7's case: a gzip export of two events, a device and a profile was posted
\* back under "gzip" and accepted.
C7_Witness ==
    /\ PostsBackExport
    /\ saved.compression = gzipCompression
    /\ saved.data.RecordedEvents = <<"e2", "e1">>
    /\ Len(saved.data.Devices) = 1
    /\ Len(saved.data.Profiles) = 1
    /\ importedRecordedData = saved.data
    /\ writer.status = StatusAccepted

(***************************************************************************)
(* The contract of the data manager, stated over what its callers see      *)
(* (log), its queue (dataChan) and what it publishes; checked under        *)
(* SpecManager. "Accepted" is a nil error, "rejected" a returned error.    *)
(***************************************************************************)
Accepted(i) == log[i].ret.outcome = nil
Rejected(i) == log[i].ret.outcome = anError

IsCall(i, method) == i <= Len(log) /\ log[i].method = method

\* The first call starts a recording that only an event limit of n can stop.
StartsLimited(n) ==
    IsCall(1, "StartRecording") /\ log[1].arg = [Duration |-> 0, EventLimit |-> n]

\* The events of the batches handed to processBatchedData by calls i..j.
RECURSIVE Delivered(_, _)
Delivered(i, j) == IF i > j THEN <<>> ELSE log[i].arg \o Delivered(i + 1, j)

AllBatches(i, j) == \A m \in i..j : IsCall(m, "processBatchedData")

\* s repeated n times.
RECURSIVE Repeated(_, _)
Repeated(s, n) == IF n = 0 THEN <<>> ELSE s \o Repeated(s, n - 1)

IsPrefix(s, t) == Len(s) <= Len(t) /\ s = SubSeq(t, 1, Len(s))

\* C1: with a recording active, a further start request of either kind is
\* rejected (SessionBusy), never accepted as well: of two start requests made
\* back to back from Idle, the first is accepted and the second is rejected.
C1_StartIsExclusive ==
    \A n \in 1..MaxEvents :
        (StartsLimited(n) /\ (IsCall(2, "StartRecording") \/ IsCall(2, "StartReplay")))
            => Accepted(1) /\ Rejected(2)

\* C2: a recording started with eventLimit = n holds exactly the first n
\* events delivered, however they are split into batches; what follows the
\* n-th event, in the same batch or later, is not in the export.
C2_ExactlyEventLimit ==
    \A n \in 1..MaxEvents : \A k \in 3..MaxCalls :
        (/\ StartsLimited(n)
         /\ AllBatches(2, k - 1)
         /\ Len(Delivered(2, k - 1)) >= n
         /\ IsCall(k, "ExportRecordedData"))
            => /\ Accepted(1)
               /\ Accepted(k)
               /\ log[k].ret.value.RecordedEvents = SubSeq(Delivered(2, k - 1), 1, n)

\* C3: after a recording is canceled, export gives what was stored before it
\* began: the recording imported before it, or an error (NoDataAvailable)
\* when nothing was stored; the events delivered in between change nothing.
C3_CancelDiscards ==
    \A n \in 1..MaxEvents : \A k \in 3..MaxCalls :
        /\ (/\ StartsLimited(n)
            /\ AllBatches(2, k - 2)
            /\ Len(Delivered(2, k - 2)) < n
            /\ IsCall(k - 1, "CancelRecording")
            /\ IsCall(k, "ExportRecordedData"))
               => Accepted(1) /\ Rejected(k)
        /\ (/\ IsCall(1, "ImportRecordedData")
            /\ IsCall(2, "StartRecording")
            /\ IsCall(3, "CancelRecording")
            /\ IsCall(4, "ExportRecordedData"))
               => Accepted(1) /\ Accepted(2) /\ Accepted(4) /\ log[4].ret.value = log[1].arg

\* C6: a replay of a stored recording with repeatCount = R publishes the
\* stored events, in order, 1 + R times and nothing else: the replay is
\* accepted, what is published is always a prefix of the 1 + R passes, and
\* once the status reports the replay over, all of it was published.
C6_ReplayPasses ==
    (IsCall(1, "ImportRecordedData") /\ IsCall(2, "StartReplay"))
        => LET passes == Repeated(log[1].arg.RecordedEvents, 1 + log[2].arg.RepeatCount)
           IN  /\ Accepted(1)
               /\ Accepted(2)
               /\ IsPrefix(published, passes)
               /\ IsCall(3, "ReplayStatus") =>
                    \/ log[3].ret.outcome = "running"
                    \/ log[3].ret.outcome = "idle" /\ published = passes

\* C8: the queue holds at most one batch and no batch is dropped: the
\* batches handed over while recording are in the recording, each once and
\* in the order they came.
C8_NoBatchLost ==
    /\ Len(dataChan) <= DataChanCap
    /\ \A k \in 3..MaxCalls :
        (/\ IsCall(1, "StartRecording")
         /\ log[1].arg.Duration = 0
         /\ AllBatches(2, k - 1)
         /\ Len(Delivered(2, k - 1)) = log[1].arg.EventLimit
         /\ IsCall(k, "ExportRecordedData"))
            => /\ Accepted(k)
               /\ log[k].ret.value.RecordedEvents = Delivered(2, k - 1)
               /\ dataChan = <<>>

\* C9: an import made while a recording is active is rejected with an error,
\* and an export right after it is still refused: the store was not written.
C9_ImportWhileActive ==
    \A n \in 1..MaxEvents :
        (StartsLimited(n) /\ IsCall(2, "ImportRecordedData"))
            => /\ Accepted(1)
               /\ Rejected(2)
               /\ IsCall(3, "ExportRecordedData") => Rejected(3)

\* C10 (what a finite run shows of it): a recording with only a duration is
\* accepted, and with no event delivered an export is refused while it runs
\* and afterwards gives a recording with no events, never anything else.
C10_DeadlineOnly ==
    \A k \in 2..MaxCalls :
        (/\ IsCall(1, "StartRecording")
         /\ log[1].arg = [Duration |-> 1, EventLimit |-> 0]
         /\ \A m \in 2..k : IsCall(m, "ExportRecordedData"))
            => /\ Accepted(1)
               /\ Rejected(k) \/ (Accepted(k) /\ log[k].ret.value.RecordedEvents = <<>>)

====
